---- MODULE Spec2Model ----
(***************************************************************************)
(* Model of cmd/main.go of earthquake-alert: the poll / filter / deliver   *)
(* pipeline.  Three threads of control: main, the goroutine loop (the      *)
(* Poller) and the goroutine notification (the Notifier), joined by the    *)
(* unbuffered channel ch and the cancellable context ctx.                  *)
(*                                                                         *)
(* Time is in milliseconds (Event.StartAt is epoch milliseconds).          *)
(***************************************************************************)
EXTENDS Integers, Sequences, FiniteSets, TLC

VARIABLES
    mpc,          \* main: "start", "waiting" (<-quit), "cancelled", "exited", "panicked"
    key,          \* the -key flag
    ctxDone,      \* ctx.Done() is closed (cancelFunc has run)
    now,          \* the wall clock, epoch milliseconds
    ppc,          \* loop: "idle", "select", "query", "got", "sending", "stopped"
    lastTs,       \* loop's cursor
    reqStartAt,   \* start_at parameter of the request query built last
    queryCtxDone, \* ctx was already done when the running query began
    resp,         \* resp.Data returned by query (<<>> when err)
    err,          \* err returned by query
    offered,      \* the value loop is sending on ch (<<e>> while blocked, else <<>>)
    npc,          \* notification: "idle", "select", "fn", "stopped"
    event,        \* the event fn is dispatching (<<e>> while in fn, else <<>>)
    fnCtxDone,    \* ctx was already done when the running fn began
    ticks,        \* number of ticker ticks loop has taken
    sent,         \* history: events loop put on ch (at the start of the send)
    received,     \* history: events notification took from ch
    results,      \* history: outcome of each finished fn call (TRUE = nil error)
    seenData,     \* history: some query returned a non-empty list without error
    lastOutcome,  \* history: what the last processed tick got: "none", "error", "empty", "data"
    lastHead,     \* history: startAt of element 0 of the last non-empty list query returned (0: none)
    lastMixed,    \* history: that list had a later element with another startAt
    sentAtCancel, \* history: Len(sent) when ctx was cancelled
    ppcAtCancel   \* history: where loop was when ctx was cancelled ("none" before)

vars == <<mpc, key, ctxDone, now, ppc, lastTs, reqStartAt, queryCtxDone, resp,
          err, offered, npc, event, fnCtxDone, ticks, sent, received, results,
          seenData, lastOutcome, lastHead, lastMixed,
          sentAtCancel, ppcAtCancel>>

mainVars == <<mpc, key, ctxDone, sentAtCancel, ppcAtCancel>>
loopVars == <<ppc, lastTs, reqStartAt, queryCtxDone, resp, err, offered, ticks,
              sent, seenData, lastOutcome, lastHead, lastMixed>>
notifVars == <<npc, event, fnCtxDone, received, results>>

\* ---------------------------------------------------------------- bounds
MaxTicks == 2
MaxData == 2

\* ------------------------------------------------------------- constants
\* 30*time.Minute, in milliseconds
Threshold == 30 * 60 * 1000

T0 == 2 * Threshold

\* the instants the wall clock is observed at
Clock == {T0, T0 + 1}

\* the startAt values the feed reports: at clock T0 these are exactly 30
\* minutes old and one millisecond in the future; at T0 + 1 the first is one
\* millisecond too old and the second is the present
StartAts == {T0 - Threshold, T0 + 1}

EventIds == {1, 2}

Keys == {"", "k"}

\* Event, reduced to the two fields the pipeline's control flow can tell apart
Event == [eventId : EventIds, startAt : StartAts]

RECURSIVE SeqsUpTo(_, _)
SeqsUpTo(S, n) ==
    IF n = 0 THEN {<<>>}
    ELSE LET shorter == SeqsUpTo(S, n - 1)
         IN  shorter \cup {Append(s, x) : s \in {t \in shorter : Len(t) = n - 1}, x \in S}

\* Response.Data: the lists a decoded response can carry
Data == SeqsUpTo(Event, MaxData)

\* ------------------------------------------------------------- helpers
\* time.Since(time.UnixMilli(ts)) at clock t
Since(ts, t) == t - ts

\* the process is running: main has started the goroutines and not returned
Alive == mpc \in {"waiting", "cancelled"}

\* query as it would be with a request that does not carry ctx
QueryOutcomes_IgnoreCtx(done) ==
    {[err |-> TRUE, data |-> <<>>]} \cup {[err |-> FALSE, data |-> d] : d \in Data}

\* query: the (err, data) pairs it can return.  The request is built with
\* NewRequestWithContext(ctx, ...): when ctx is done client.Do fails.
QueryOutcomes(done) ==
    IF done THEN {[err |-> TRUE, data |-> <<>>]}
    ELSE {[err |-> TRUE, data |-> <<>>]} \cup {[err |-> FALSE, data |-> d] : d \in Data}

\* fn as it would be with a request that does not carry ctx
FnOutcomes_IgnoreCtx(done) == {TRUE, FALSE}

\* fn: the results it can return (TRUE = nil).  LoadLocation, request
\* construction, client.Do and ReadAll can each fail; with ctx done
\* client.Do fails.
FnOutcomes(done) == IF done THEN {FALSE} ELSE {TRUE, FALSE}

\* the staleness test written with < instead of <=
Process_StrictLess(ts, e, d, t) ==
    IF e THEN [lastTs |-> ts, send |-> <<>>]
    ELSE IF Len(d) > 0
         THEN [lastTs |-> d[1].startAt,
               send |-> IF Since(d[1].startAt, t) < Threshold THEN <<d[1]>> ELSE <<>>]
         ELSE [lastTs |-> ts, send |-> <<>>]

\* no staleness test: the leading event is always sent
Process_NoStaleCheck(ts, e, d, t) ==
    IF e THEN [lastTs |-> ts, send |-> <<>>]
    ELSE IF Len(d) > 0
         THEN [lastTs |-> d[1].startAt, send |-> <<d[1]>>]
         ELSE [lastTs |-> ts, send |-> <<>>]

\* a failed query clears the cursor
Process_ErrResets(ts, e, d, t) ==
    IF e THEN [lastTs |-> 0, send |-> <<>>]
    ELSE IF Len(d) > 0
         THEN [lastTs |-> d[1].startAt,
               send |-> IF Since(d[1].startAt, t) <= Threshold THEN <<d[1]>> ELSE <<>>]
         ELSE [lastTs |-> ts, send |-> <<>>]

\* an empty list clears the cursor
Process_EmptyResets(ts, e, d, t) ==
    IF e THEN [lastTs |-> ts, send |-> <<>>]
    ELSE IF Len(d) > 0
         THEN [lastTs |-> d[1].startAt,
               send |-> IF Since(d[1].startAt, t) <= Threshold THEN <<d[1]>> ELSE <<>>]
         ELSE [lastTs |-> 0, send |-> <<>>]

\* the cursor moves only when the leading event is accepted for emission
Process_AcceptOnly(ts, e, d, t) ==
    IF e THEN [lastTs |-> ts, send |-> <<>>]
    ELSE IF Len(d) > 0
         THEN IF Since(d[1].startAt, t) <= Threshold
              THEN [lastTs |-> d[1].startAt, send |-> <<d[1]>>]
              ELSE [lastTs |-> ts, send |-> <<>>]
         ELSE [lastTs |-> ts, send |-> <<>>]

\* the candidate is the last element of the list instead of the first
Process_LastElement(ts, e, d, t) ==
    IF e THEN [lastTs |-> ts, send |-> <<>>]
    ELSE IF Len(d) > 0
         THEN [lastTs |-> d[Len(d)].startAt,
               send |-> IF Since(d[Len(d)].startAt, t) <= Threshold
                        THEN <<d[Len(d)]>> ELSE <<>>]
         ELSE [lastTs |-> ts, send |-> <<>>]

\* loop, lines 76-89: what one tick does with query's result: the new cursor
\* and the events it goes on to send on the channel
Process(ts, e, d, t) ==
    IF e THEN [lastTs |-> ts, send |-> <<>>]
    ELSE IF Len(d) > 0
         THEN [lastTs |-> d[1].startAt,
               send |-> IF Since(d[1].startAt, t) <= Threshold THEN <<d[1]>> ELSE <<>>]
         ELSE [lastTs |-> ts, send |-> <<>>]

\* ------------------------------------------------------------------ Init
Init ==
    /\ mpc = "start"
    /\ key \in Keys
    /\ ctxDone = FALSE
    /\ now = T0
    /\ ppc = "idle"
    /\ lastTs = 0
    /\ reqStartAt = 0
    /\ queryCtxDone = FALSE
    /\ resp = <<>>
    /\ err = FALSE
    /\ offered = <<>>
    /\ npc = "idle"
    /\ event = <<>>
    /\ fnCtxDone = FALSE
    /\ ticks = 0
    /\ sent = <<>>
    /\ received = <<>>
    /\ results = <<>>
    /\ seenData = FALSE
    /\ lastOutcome = "none"
    /\ lastHead = 0
    /\ lastMixed = FALSE
    /\ sentAtCancel = 0
    /\ ppcAtCancel = "none"

\* ------------------------------------------------------------------ main
\* main without the key check
MainStart_NoKeyCheck ==
    /\ mpc = "start"
    /\ mpc' = "waiting"
    /\ ppc' = "select"
    /\ npc' = "select"
    /\ UNCHANGED <<key, ctxDone, sentAtCancel, ppcAtCancel, now, lastTs, reqStartAt,
                   queryCtxDone, resp, err, offered, ticks, sent, seenData, lastHead,
                   lastMixed, lastOutcome, event, fnCtxDone, received,
                   results>>

\* flag.Parse, the key check, and the two go statements
MainStart ==
    /\ mpc = "start"
    /\ IF key = ""
       THEN /\ mpc' = "panicked"
            /\ UNCHANGED <<ppc, npc>>
       ELSE /\ mpc' = "waiting"
            /\ ppc' = "select"
            /\ npc' = "select"
    /\ UNCHANGED <<key, ctxDone, sentAtCancel, ppcAtCancel, now, lastTs,
                   reqStartAt, queryCtxDone, resp, err, offered, ticks,
                   sent, seenData, lastHead, lastMixed,
                   lastOutcome, event, fnCtxDone, received, results>>

\* <-quit returns and cancelFunc() closes ctx.Done()
Interrupt ==
    /\ mpc = "waiting"
    /\ mpc' = "cancelled"
    /\ ctxDone' = TRUE
    /\ sentAtCancel' = Len(sent)
    /\ ppcAtCancel' = ppc
    /\ UNCHANGED <<key, now, loopVars, notifVars>>

\* main joining the two goroutines before it returns
MainExit_Join ==
    /\ mpc = "cancelled"
    /\ ppc = "stopped"
    /\ npc = "stopped"
    /\ mpc' = "exited"
    /\ UNCHANGED <<key, ctxDone, sentAtCancel, ppcAtCancel, now, loopVars, notifVars>>

\* main returns: the process ends, whatever the goroutines are doing
MainExit ==
    /\ mpc = "cancelled"
    /\ mpc' = "exited"
    /\ UNCHANGED <<key, ctxDone, sentAtCancel, ppcAtCancel, now, loopVars, notifVars>>

\* ------------------------------------------------------------------ loop
\* select takes case <-ticker.C and query builds its request
LoopTick ==
    /\ Alive
    /\ ppc = "select"
    /\ ticks < MaxTicks
    /\ ppc' = "query"
    /\ ticks' = ticks + 1
    /\ reqStartAt' = lastTs
    /\ queryCtxDone' = ctxDone
    /\ UNCHANGED <<mainVars, now, lastTs, resp, err, offered, sent,
                   seenData, lastHead, lastMixed,
                   lastOutcome, notifVars>>

\* query returns.  The request carries ctx (line 39): once ctx is done
\* client.Do and the body read fail, so a query that is still running when
\* ctx is cancelled returns an error too.
QueryReturn ==
    /\ Alive
    /\ ppc = "query"
    /\ \E o \in QueryOutcomes(queryCtxDone \/ ctxDone) :
          /\ resp' = o.data
          /\ err' = o.err
          /\ seenData' = (seenData \/ (~o.err /\ Len(o.data) > 0))
          /\ IF ~o.err /\ Len(o.data) > 0
             THEN /\ lastHead' = o.data[1].startAt
                  /\ lastMixed' = (\E i \in 2..Len(o.data) :
                                    o.data[i].startAt # o.data[1].startAt)
             ELSE UNCHANGED <<lastHead, lastMixed>>
    /\ ppc' = "got"
    /\ UNCHANGED <<mainVars, now, lastTs, reqStartAt, queryCtxDone, offered, ticks,
                   sent, lastOutcome, notifVars>>

\* a failed query makes loop return
LoopProcess_ErrReturns ==
    /\ Alive
    /\ ppc = "got"
    /\ LET p == Process(lastTs, err, resp, now)
       IN  /\ lastTs' = p.lastTs
           /\ offered' = p.send
           /\ sent' = sent \o p.send
           /\ ppc' = IF err THEN "stopped"
                     ELSE IF Len(p.send) > 0 THEN "sending" ELSE "select"
    /\ lastOutcome' = IF err THEN "error" ELSE IF Len(resp) > 0 THEN "data" ELSE "empty"
    /\ resp' = <<>>
    /\ err' = FALSE
    /\ UNCHANGED <<mainVars, now, reqStartAt, queryCtxDone, ticks, seenData, lastHead,
                   lastMixed, notifVars>>

\* a stale leading event makes loop return
LoopProcess_StaleReturns ==
    /\ Alive
    /\ ppc = "got"
    /\ LET p == Process(lastTs, err, resp, now)
       IN  /\ lastTs' = p.lastTs
           /\ offered' = p.send
           /\ sent' = sent \o p.send
           /\ ppc' = IF Len(p.send) > 0 THEN "sending"
                     ELSE IF ~err /\ Len(resp) > 0 THEN "stopped" ELSE "select"
    /\ lastOutcome' = IF err THEN "error" ELSE IF Len(resp) > 0 THEN "data" ELSE "empty"
    /\ resp' = <<>>
    /\ err' = FALSE
    /\ UNCHANGED <<mainVars, now, reqStartAt, queryCtxDone, ticks, seenData, lastHead,
                   lastMixed, notifVars>>

\* lines 76-89: on a fresh leading event loop starts the send and blocks in
\* it; otherwise it reaches ticker.Reset and the select again
LoopProcess ==
    /\ Alive
    /\ ppc = "got"
    /\ LET p == Process(lastTs, err, resp, now)
       IN  /\ lastTs' = p.lastTs
           /\ offered' = p.send
           /\ sent' = sent \o p.send
           /\ ppc' = IF Len(p.send) > 0 THEN "sending" ELSE "select"
    /\ lastOutcome' = IF err THEN "error" ELSE IF Len(resp) > 0 THEN "data" ELSE "empty"
    /\ resp' = <<>>
    /\ err' = FALSE
    /\ UNCHANGED <<mainVars, now, reqStartAt, queryCtxDone, ticks,
                   seenData, lastHead, lastMixed,
                   notifVars>>

\* select takes case <-ctx.Done()
LoopDone ==
    /\ Alive
    /\ ppc = "select"
    /\ ctxDone
    /\ ppc' = "stopped"
    /\ UNCHANGED <<mainVars, now, lastTs, reqStartAt, queryCtxDone, resp,
                   err, offered, ticks, sent, seenData, lastHead,
                   lastMixed, lastOutcome, notifVars>>

\* ---------------------------------------------------------- notification
\* a receive that leaves the sender blocked with its value still on offer
ChanRecv_Dup ==
    /\ Alive
    /\ npc = "select"
    /\ ppc = "sending"
    /\ event' = offered
    /\ received' = Append(received, offered[1])
    /\ fnCtxDone' = ctxDone
    /\ npc' = "fn"
    /\ UNCHANGED <<mainVars, now, loopVars, results>>

\* a receive that does not wait for the running fn (a second consumer)
ChanRecv_WhileFn ==
    /\ Alive
    /\ npc \in {"select", "fn"}
    /\ ppc = "sending"
    /\ event' = offered
    /\ received' = Append(received, offered[1])
    /\ fnCtxDone' = ctxDone
    /\ npc' = "fn"
    /\ offered' = <<>>
    /\ ppc' = "select"
    /\ UNCHANGED <<mainVars, now, lastTs, reqStartAt, queryCtxDone, resp, err, ticks,
                   sent, seenData, lastHead, lastMixed, lastOutcome,
                   results>>

\* select takes case event := <-ch: the rendezvous completes loop's send
\* (loop goes on to ticker.Reset and its select) and fn(event) begins
ChanRecv ==
    /\ Alive
    /\ npc = "select"
    /\ ppc = "sending"
    /\ event' = offered
    /\ received' = Append(received, offered[1])
    /\ fnCtxDone' = ctxDone
    /\ npc' = "fn"
    /\ offered' = <<>>
    /\ ppc' = "select"
    /\ UNCHANGED <<mainVars, now, lastTs, reqStartAt, queryCtxDone, resp,
                   err, ticks, sent, seenData, lastHead, lastMixed, lastOutcome, results>>

\* a failed fn ends the for loop
FnReturn_FailStops ==
    /\ Alive
    /\ npc = "fn"
    /\ \E ok \in FnOutcomes(fnCtxDone \/ ctxDone) :
          /\ results' = Append(results, ok)
          /\ npc' = IF ok THEN "select" ELSE "stopped"
    /\ event' = <<>>
    /\ UNCHANGED <<mainVars, now, loopVars, fnCtxDone, received>>

\* a failed fn is called again on the same event
FnReturn_Retry ==
    /\ Alive
    /\ npc = "fn"
    /\ \E ok \in FnOutcomes(fnCtxDone \/ ctxDone) :
          /\ results' = Append(results, ok)
          /\ npc' = IF ok THEN "select" ELSE "fn"
          /\ event' = IF ok THEN <<>> ELSE event
    /\ UNCHANGED <<mainVars, now, loopVars, fnCtxDone, received>>

\* fn returns; an error is logged and the for loop goes round.  The request
\* carries ctx (line 107): an fn still running when ctx is cancelled fails.
FnReturn ==
    /\ Alive
    /\ npc = "fn"
    /\ \E ok \in FnOutcomes(fnCtxDone \/ ctxDone) : results' = Append(results, ok)
    /\ event' = <<>>
    /\ npc' = "select"
    /\ UNCHANGED <<mainVars, now, loopVars, fnCtxDone, received>>

\* on cancellation the pending item is drained before returning
NotificationDone_Drain ==
    /\ Alive
    /\ npc = "select"
    /\ ctxDone
    /\ npc' = "stopped"
    /\ IF ppc = "sending"
       THEN /\ received' = Append(received, offered[1])
            /\ offered' = <<>>
            /\ ppc' = "select"
       ELSE UNCHANGED <<received, offered, ppc>>
    /\ UNCHANGED <<mainVars, now, lastTs, reqStartAt, queryCtxDone, resp,
                   err, ticks, sent, seenData, lastHead, lastMixed, lastOutcome, event, fnCtxDone, results>>

\* select takes case <-ctx.Done()
NotificationDone ==
    /\ Alive
    /\ npc = "select"
    /\ ctxDone
    /\ npc' = "stopped"
    /\ UNCHANGED <<mainVars, now, loopVars, event, fnCtxDone, received, results>>

\* ----------------------------------------------------------------- clock
Advance ==
    /\ \E t \in Clock : t > now /\ now' = t
    /\ UNCHANGED <<mainVars, loopVars, notifVars>>

Next ==
    \/ MainStart
    \/ Interrupt
    \/ MainExit
    \/ LoopTick
    \/ QueryReturn
    \/ LoopProcess
    \/ LoopDone
    \/ ChanRecv
    \/ FnReturn
    \/ NotificationDone
    \/ Advance

Spec == Init /\ [][Next]_vars

\* The Go scheduler runs every runnable goroutine; the OS interrupt and the
\* passing of time are not owed to anyone.
FairSpec ==
    /\ Spec
    /\ WF_vars(MainStart)
    /\ WF_vars(MainExit)
    /\ WF_vars(QueryReturn)
    /\ WF_vars(LoopProcess)
    /\ WF_vars(LoopDone)
    /\ WF_vars(ChanRecv)
    /\ WF_vars(FnReturn)
    /\ WF_vars(NotificationDone)

\* FairSpec with a ticker that keeps firing
TickSpec == FairSpec /\ WF_vars(LoopTick)

\* ---------------------------------------------------------------- claims
\* a step of loop that processes query's result (lines 76-89)
ProcessStep == ppc = "got" /\ ppc' # "got"

IsPrefix(s, t) == Len(s) <= Len(t) /\ \A i \in 1..Len(s) : s[i] = t[i]

\* C1: a tick whose query returns a non-empty list whose first event is at
\* most 30 minutes old (exactly 30 minutes and future-dated included) puts
\* exactly one event on the channel, element 0, and sets lastTs to its startAt.
C1_FreshIsEmitted ==
    [][(ProcessStep /\ ~err /\ Len(resp) > 0 /\ Since(resp[1].startAt, now) <= Threshold)
        => /\ ppc' = "sending"
           /\ offered' = <<resp[1]>>
           /\ sent' = Append(sent, resp[1])
           /\ lastTs' = resp[1].startAt]_vars

\* loop is offering an event that is exactly 30 minutes old
C1_Witness ==
    /\ ppc = "sending"
    /\ Len(offered) = 1
    /\ Since(offered[1].startAt, now) = Threshold
    /\ lastTs = offered[1].startAt
    /\ sent[Len(sent)] = offered[1]

\* C2: a tick whose query returns a non-empty list whose first event is more
\* than 30 minutes old sets lastTs to its startAt and sends nothing.
C2_StaleAdvancesCursorOnly ==
    [][(ProcessStep /\ ~err /\ Len(resp) > 0 /\ Since(resp[1].startAt, now) > Threshold)
        => /\ lastTs' = resp[1].startAt
           /\ sent' = sent
           /\ offered' = <<>>
           /\ ppc' = "select"]_vars

\* the cursor stands at a stale startAt and nothing was ever sent
C2_Witness ==
    /\ lastOutcome = "data"
    /\ ppc = "select"
    /\ Since(lastTs, now) > Threshold
    /\ lastTs \in StartAts
    /\ sent = <<>>

\* C3: a tick whose query fails leaves lastTs as it was, sends nothing, and
\* loop goes back to its select.
C3_FetchErrorSkipsTick ==
    [][(ProcessStep /\ err)
        => /\ lastTs' = lastTs
           /\ sent' = sent
           /\ offered' = <<>>
           /\ ppc' = "select"]_vars

\* a failed tick has been processed with the cursor already advanced
C3_Witness ==
    /\ lastOutcome = "error"
    /\ ppc = "select"
    /\ lastTs \in StartAts

\* C4: a tick whose query returns an empty list leaves lastTs as it was and
\* sends nothing; lastTs is 0 as long as no non-empty list has been returned.
C4_EmptyLeavesCursor ==
    /\ [][(ProcessStep /\ ~err /\ Len(resp) = 0)
           => /\ lastTs' = lastTs
              /\ sent' = sent
              /\ offered' = <<>>
              /\ ppc' = "select"]_vars
    /\ [](~seenData => lastTs = 0 /\ sent = <<>>)

\* an empty tick has been processed with the cursor already advanced
C4_Witness ==
    /\ lastOutcome = "empty"
    /\ ppc = "select"
    /\ lastTs \in StartAts

\* C5: the events notification received, and dispatches in that order one at
\* a time, are a prefix of the events loop sent on the channel.
C5_ReceivedIsPrefixOfSent ==
    /\ IsPrefix(received, sent)
    /\ Len(sent) - Len(received) = Len(offered)
    /\ offered # <<>> => offered[1] = sent[Len(sent)]
    /\ Len(results) + Len(event) = Len(received)
    /\ event # <<>> => event[1] = received[Len(received)]

\* two different events went through the channel
C5_Witness ==
    /\ Len(received) = 2
    /\ received[1] # received[2]
    /\ sent = received

\* the last fn call failed, ctx is live and loop is offering the next event
AfterFailOffered ==
    /\ npc = "select"
    /\ Len(results) > 0
    /\ ~results[Len(results)]
    /\ ppc = "sending"
    /\ ~ctxDone

\* C6: when fn returns an error notification stays in its for loop, and,
\* absent cancellation, receives the next event loop sends.
C6_DispatchFailureIsolated ==
    /\ [][(npc = "fn" /\ results' = Append(results, FALSE)) => npc' = "select"]_vars
    /\ (AfterFailOffered ~> (ctxDone \/ (npc = "fn" /\ Len(received) > Len(results))))

\* a dispatch failed and a later event was received, with ctx live
C6_Witness ==
    /\ ~ctxDone
    /\ \E i \in 1..Len(results) : ~results[i] /\ Len(received) > i

\* C7: after cancellation loop is never left blocked in the channel send with
\* no receiver: the send at line 84 completes only in ChanRecv, which needs
\* notification in its select, so from such a state loop never returns.
C7_PollerNeverBlockedForever ==
    ~(ctxDone /\ ppc = "sending" /\ npc = "stopped")

\* C8 as claimed: once ctx is cancelled notification receives nothing more.
C8_NoReceiveAfterCancel ==
    [][ctxDone => received' = received]_vars

\* C8: once notification's select has taken the ctx.Done case it receives
\* nothing more, whatever is on offer; an event it receives with ctx already
\* done is not delivered (fn returns an error).
C8_NoReceiveAfterReturn ==
    [][/\ (npc' = "stopped" => received' = received /\ results' = results)
       /\ (npc = "fn" /\ fnCtxDone /\ npc' # "fn" => results' = Append(results, FALSE))]_vars

\* notification has returned while loop is still offering an event
C8_Witness ==
    /\ npc = "stopped"
    /\ ppc = "sending"
    /\ Len(received) < Len(sent)

C10_NoDuplicateSent ==
    \A i, j \in 1..Len(sent) : i # j => sent[i] # sent[j]
\* a successful non-empty response is being processed
DataStep == ProcessStep /\ ~err /\ Len(resp) > 0

\* C11: lastTs never decreases, and the startAt values of the events put on
\* the channel never decrease.
C11_CursorNeverRegresses ==
    /\ [][lastTs' >= lastTs]_vars
    /\ [](\A i \in 1..(Len(sent) - 1) : sent[i].startAt <= sent[i + 1].startAt)

\* C12: every received event gets exactly one fn call, whatever its result:
\* the calls (finished ones and the running one) are as many as the events
\* received, never more than the events sent, and a failing fn call drops its
\* event and touches neither the channel nor what was received.
C12_AtMostOnce ==
    /\ [](/\ Len(results) + Len(event) = Len(received)
          /\ Len(event) = (IF npc = "fn" THEN 1 ELSE 0)
          /\ Len(results) + Len(event) <= Len(sent))
    /\ [][(npc = "fn" /\ results' = Append(results, FALSE))
           => /\ event' = <<>>
              /\ npc' = "select"
              /\ received' = received
              /\ sent' = sent
              /\ offered' = offered]_vars

\* a dispatch failed, nothing is running, and one call was made per event
C12_Witness ==
    /\ npc = "select"
    /\ Len(results) = 2
    /\ ~results[1]
    /\ Len(received) = 2
    /\ offered = <<>>

\* C13: with an empty key main panics before the go statements: neither
\* goroutine ever runs, so nothing is queried and nothing is dispatched.
C13_EmptyKeyAborts ==
    key = "" =>
        /\ mpc \in {"start", "panicked"}
        /\ ppc = "idle"
        /\ npc = "idle"
        /\ ticks = 0
        /\ sent = <<>>
        /\ received = <<>>
        /\ results = <<>>
        /\ ~ctxDone

\* main has panicked on the empty key
C13_Witness ==
    /\ key = ""
    /\ mpc = "panicked"

\* C14 as claimed: lastTs is 0 or the startAt of the last event accepted for
\* emission.
C14_CursorIsLastAccepted ==
    lastTs = 0 \/ (sent # <<>> /\ lastTs = sent[Len(sent)].startAt)

\* C14: lastTs starts at 0 and changes only when a tick processes a
\* successful non-empty response, which sets it to the startAt of element 0
\* whether that event is then emitted or rejected as stale.
C14_CursorIsLastLeading ==
    /\ lastTs = 0
    /\ [][/\ (lastTs' # lastTs => DataStep)
          /\ (DataStep => lastTs' = resp[1].startAt)]_vars

\* a stale rejection has moved the cursor off the last emitted event
C14_Witness ==
    /\ sent # <<>>
    /\ lastTs # sent[Len(sent)].startAt
    /\ lastTs \in StartAts
    /\ lastOutcome = "data"
    /\ ppc = "select"

\* C15: the channel holds at most one event; loop's send completes only in
\* the step in which notification, waiting in its select, receives that
\* event; so while fn runs the next send stays blocked, and at most one fn
\* runs at a time.
C15_OneInFlight ==
    /\ [](/\ Len(offered) <= 1
          /\ Len(event) <= 1
          /\ (ppc = "sending") = (Len(offered) = 1)
          /\ Len(sent) - Len(received) = Len(offered))
    /\ [][(ppc = "sending" /\ ppc' # "sending")
           => /\ npc = "select"
              /\ event = <<>>
              /\ npc' = "fn"
              /\ event' = offered
              /\ received' = Append(received, offered[1])]_vars

\* loop is blocked sending the next event while fn runs on the previous one
C15_Witness ==
    /\ ppc = "sending"
    /\ npc = "fn"
    /\ Len(received) = 1
    /\ Len(sent) = 2
\* C16: a goroutine that has returned has done so on cancellation, and ctx
\* is cancelled only by main after the interrupt; processing a tick (error,
\* empty, stale or fresh) never makes loop return, fn returning (nil or
\* error) never makes notification return, and neither touches the other
\* goroutine.
C16_OnlyCancellationStops ==
    /\ [](/\ (ppc = "stopped" \/ npc = "stopped") => ctxDone
          /\ ctxDone => mpc \in {"cancelled", "exited"})
    /\ [][/\ (ProcessStep => ppc' \in {"select", "sending"} /\ npc' = npc)
          /\ (npc = "fn" /\ npc' # "fn" => npc' = "select" /\ ppc' = ppc)]_vars

\* a query has failed and a dispatch has failed, and both goroutines run on
C16_Witness ==
    /\ ~ctxDone
    /\ lastOutcome = "error"
    /\ Len(results) > 0
    /\ ~results[Len(results)]
    /\ ppc = "select"
    /\ npc = "select"

C18_ExitWithoutJoin ==
    /\ [][mpc = "waiting" /\ mpc' # "waiting" => ctxDone' /\ mpc' = "cancelled"]_vars
    /\ (ctxDone ~> mpc = "exited")

\* the process has exited with loop blocked in the send and fn running
C18_Witness ==
    /\ mpc = "exited"
    /\ ppc = "sending"
    /\ npc = "fn"

\* C19: while the process runs uncancelled, whenever query has returned
\* (error, empty, stale or fresh), also while loop is blocked in the send or
\* back in its select, and whatever fn returns, loop begins the query of a
\* later tick (up to the bound on ticks).
C19_TicksGoOn ==
    (mpc = "waiting" /\ ticks < MaxTicks /\ ppc \in {"got", "sending", "select"})
        ~> (ppc = "query" \/ ctxDone)

\* a dispatch failed and loop has since begun the query of a later tick
C19_Witness ==
    /\ ~ctxDone
    /\ ticks >= 2
    /\ ppc = "query"
    /\ Len(results) >= 1
    /\ ~results[1]

\* C20: outside the processing of a response just returned, lastTs is the
\* startAt of element 0 of the last successful non-empty response (0 if
\* none); a running query was built with start_at = lastTs; and processing a
\* response sets the cursor from element 0 and sends element 0 or nothing.
C20_CursorIsHeadOfLastResponse ==
    /\ []((ppc = "got" /\ ~err /\ Len(resp) > 0) \/ lastTs = lastHead)
    /\ [](ppc = "query" => reqStartAt = lastTs)
    /\ [][DataStep => /\ lastTs' = resp[1].startAt
                      /\ sent' \in {sent, Append(sent, resp[1])}
                      /\ offered' \in {<<>>, <<resp[1]>>}]_vars

\* a list with a later element unlike element 0 was processed: the cursor
\* and the event on offer are element 0's
C20_Witness ==
    /\ lastMixed
    /\ lastTs = lastHead
    /\ ppc = "sending"
    /\ offered[1].startAt = lastHead
====
